---- MODULE Spec2Model ----
(***************************************************************************)
(* Model of src/src/session.py: the provenance Session (agent stack,       *)
(* PROV document, scoped activation of the module-level global_session)    *)
(* and the generate_prov decorator's wrapper.                              *)
(*                                                                         *)
(* A Session object is modelled from the moment __init__ starts to run on  *)
(* it: its attributes are those the statements of __init__ that were       *)
(* executed have assigned (hash_vals raises at line 76, so lines 77-79     *)
(* never run and the object keeps prov and _user only).  The methods are   *)
(* modelled on the object as __init__ leaves it.  Exceptions are values:   *)
(* every operation leaves in `last` the exception it raised (None when it  *)
(* returned).                                                              *)
(*                                                                         *)
(* Spec runs every operation of one thread; SpecNested keeps to properly   *)
(* nested activations of distinct Sessions; SpecStack is the agent stack   *)
(* alone; SpecHash is hash_vals alone; SpecThreads interleaves the scoped  *)
(* activations of two threads.                                             *)
(***************************************************************************)
EXTENDS Integers, Sequences, FiniteSets, TLC

VARIABLES
    objects,             \* the Session objects __init__ has run on
    _user,               \* Session._user, per object: the agent stack
    prov,                \* Session.prov, per object: the ProvDocument's records
    session,             \* Session.session, per object (Unset: never assigned)
    old_global_session,  \* Session.old_global_session, per object
    global_session,      \* the module-level global_session
    scopes,              \* the `with` blocks now open, innermost last
    last                 \* the operation just performed and its outcome

vars == <<objects, _user, prov, session, old_global_session, global_session,
          scopes, last>>

(* Bound of the model: records explored per document (the primary agent's  *)
(* and one per push_agent).                                                *)
MaxRecords == 2

(* Bound of the agent-stack specification: delegation edges explored per   *)
(* document.                                                               *)
MaxPushes == 2

(* Bound of the hasher's specification: fields per call of hash_vals.      *)
MaxFields == 3

None == "None"
Unset == "Unset"   \* an attribute no statement has assigned yet
Sessions == {"S1", "S2"}

(* `with` blocks are explored nested as deep as there are Sessions: one    *)
(* inside another, or one Session entered again inside itself.             *)
MaxScopes == Cardinality(Sessions)

(* Agents are ProvAgent objects: an identifier and the bundle (document)   *)
(* that created them.  Each Session's primary agent belongs to the         *)
(* Session's own document; client code creates the delegate agents it     *)
(* pushes, here one delegate made in the document of Session S1.           *)
PrimaryAgent(s) == [id |-> "orcid", bundle |-> s]
DelegateAgent(s) == [id |-> "delegate", bundle |-> s]
Delegates == {DelegateAgent("S1")}
Agents == {PrimaryAgent(s) : s \in Sessions} \cup Delegates

(* datetime.datetime.now() *)
Times == {1}

(* Keyword names are strings, modelled as sequences of characters.         *)
kw_startTime == <<"s", "t", "a", "r", "t", "T", "i", "m", "e">>
kw_os == <<"o", "s">>
kw_directory == <<"d", "i", "r", "e", "c", "t", "o", "r", "y">>
kw_host == <<"h", "o", "s", "t">>
kw_agent == <<"a", "g", "e", "n", "t">>
kw_date == <<"d", "a", "t", "e">>
kw_activity == <<"a", "c", "t", "i", "v", "i", "t", "y">>
kw_name == <<"n", "a", "m", "e">>
kw_position == <<"p", "o", "s", "i", "t", "i", "o", "n">>

(***************************************************************************)
(* hash_vals, on its kwargs.  `for key, val in kwargs` iterates the dict's  *)
(* keys and unpacks each key, a string, into two names: a key that is not  *)
(* two characters long raises ValueError; a two-character key feeds        *)
(* key[0] ":" str(key[1]) "," to the hash.  The digest is modelled by the  *)
(* byte string hashed (SHA-256 taken as injective).                        *)
(***************************************************************************)
\* kwargs is the sequence of <<name, value>> pairs in the caller's order;
\* the loop unpacks the name and never reads the value
RECURSIVE hash_update(_, _)
hash_update(kwargs, hashed) ==
    IF kwargs = <<>> THEN [exc |-> None, hexdigest |-> hashed]
    ELSE IF Len(Head(kwargs)[1]) # 2
    THEN [exc |-> "ValueError: values to unpack", hexdigest |-> <<>>]
    ELSE hash_update(Tail(kwargs),
                     hashed \o <<Head(kwargs)[1][1], ":", Head(kwargs)[1][2], ",">>)

hash_vals(kwargs) == hash_update(kwargs, <<>>)

(* ProvDocument records. *)
agent_record(a) == [kind |-> "agent", id |-> a.id]
activity_record(id, start, end, attrs) ==
    [kind |-> "activity", id |-> id, startTime |-> start, endTime |-> end,
     attrs |-> attrs]
entity_record(id) == [kind |-> "entity", id |-> id]
association(activity, a) == [kind |-> "association", activity |-> activity, agent |-> a]
delegation(delegate, responsible) ==
    [kind |-> "actedOnBehalfOf", delegate |-> delegate, responsible |-> responsible]
generation(entity, activity, time) ==
    [kind |-> "wasGeneratedBy", entity |-> entity, activity |-> activity, time |-> time]
attribution(entity, a) == [kind |-> "wasAttributedTo", entity |-> entity, agent |-> a]

Outcome(op, s, exc, ret, info) ==
    [op |-> op, sess |-> s, exc |-> exc, ret |-> ret, info |-> info]

Init ==
    /\ objects = {}
    /\ _user = [s \in Sessions |-> <<>>]
    /\ prov = [s \in Sessions |-> <<>>]
    /\ session = [s \in Sessions |-> Unset]
    /\ old_global_session = [s \in Sessions |-> Unset]
    /\ global_session = None
    /\ scopes = <<>>
    /\ last = Outcome("import", None, None, None, None)

(***************************************************************************)
(* Session.__init__(self, user_orcid), on a fresh object s.  Lines 70-73   *)
(* create the document and the primary agent; line 76 calls hash_vals; on  *)
(* its return lines 77-79 record the session activity and its association. *)
(***************************************************************************)
session_properties == <<<<kw_os, None>>, <<kw_directory, None>>, <<kw_host, None>>>>

session_id(date) == hash_vals(<<<<kw_startTime, date>>>> \o session_properties)

init_prov(s, date) ==
    LET doc == <<agent_record(PrimaryAgent(s))>>
        h == session_id(date)
    IN  IF h.exc # None THEN doc
        ELSE doc \o <<activity_record(h.hexdigest, date, None, session_properties),
                      association(h.hexdigest, PrimaryAgent(s))>>

init_session(date) ==
    IF session_id(date).exc # None THEN Unset ELSE session_id(date).hexdigest

Construct(s, date) ==
    /\ s \notin objects
    /\ objects' = objects \cup {s}
    /\ prov' = [prov EXCEPT ![s] = init_prov(s, date)]
    /\ _user' = [_user EXCEPT ![s] = <<PrimaryAgent(s)>>]
    /\ session' = [session EXCEPT ![s] = init_session(date)]

SessionInit(s) ==
    \E date \in Times :
        /\ Construct(s, date)
        /\ last' = Outcome("__init__", s, session_id(date).exc, None, None)
        /\ UNCHANGED <<old_global_session, global_session, scopes>>

(* Session.begin(cls, user_orcid): global_session = cls(user_orcid); the   *)
(* assignment happens only when the constructor returns.                   *)
begin(s) ==
    \E date \in Times :
        /\ Construct(s, date)
        /\ global_session' = IF session_id(date).exc # None THEN global_session ELSE s
        /\ last' = Outcome("begin", s, session_id(date).exc, None, None)
        /\ UNCHANGED <<old_global_session, scopes>>

(***************************************************************************)
(* Session.__enter__ / Session.__exit__.  `scopes` is the control stack of *)
(* the open `with` blocks; each frame remembers the Session entered and    *)
(* the value global_session had immediately before the entry.              *)
(***************************************************************************)
enter_old(s) == global_session

enter(s) ==
    /\ s \in objects
    /\ Len(scopes) < MaxScopes
    /\ old_global_session' = [old_global_session EXCEPT ![s] = enter_old(s)]
    /\ global_session' = s
    /\ scopes' = Append(scopes, [sess |-> s, before |-> global_session])
    /\ last' = Outcome("__enter__", s, None, s, None)
    /\ UNCHANGED <<objects, _user, prov, session>>

(* __exit__ returns False: an exception of the enclosed block is not       *)
(* suppressed.  exc_type is None when the block ended normally.            *)
exit_return(exc_type) == FALSE

\* a variant that clears the current session instead of restoring it
exit_global_cleared(s, exc_type) == None

exit_global(s, exc_type) == old_global_session[s]

exit(exc_type) ==
    /\ scopes # <<>>
    /\ LET s == scopes[Len(scopes)].sess IN
        /\ global_session' = exit_global(s, exc_type)
        /\ last' = Outcome("__exit__", s,
                           IF exit_return(exc_type) THEN None ELSE exc_type,
                           exit_return(exc_type),
                           [exc_type |-> exc_type, before |-> scopes[Len(scopes)].before])
    /\ scopes' = SubSeq(scopes, 1, Len(scopes) - 1)
    /\ UNCHANGED <<objects, _user, prov, session, old_global_session>>

SessionExit == \E exc_type \in {None, "BlockError"} : exit(exc_type)

(***************************************************************************)
(* Session.agent, push_agent, pop_agent.                                   *)
(***************************************************************************)
\* self._user[-1]
agent(s) == IF _user[s] = <<>> THEN [exc |-> "IndexError", ret |-> None]
            ELSE [exc |-> None, ret |-> _user[s][Len(_user[s])]]

read_agent(s) ==
    /\ s \in objects
    /\ last' = Outcome("agent", s, agent(s).exc, agent(s).ret, None)
    /\ UNCHANGED <<objects, _user, prov, session, old_global_session,
                   global_session, scopes>>

\* agent.actedOnBehalfOf(self._user[-1]) records the delegation in the
\* bundle of `agent`; then self._user.append(agent)
push_user(s, a) == IF agent(s).exc # None THEN _user[s] ELSE Append(_user[s], a)

push_step(s, a) ==
    /\ s \in objects
    /\ a.bundle \in objects
    /\ prov' = IF agent(s).exc # None THEN prov
               ELSE [prov EXCEPT ![a.bundle] = Append(@, delegation(a, agent(s).ret))]
    /\ _user' = [_user EXCEPT ![s] = push_user(s, a)]
    /\ last' = Outcome("push_agent", s, agent(s).exc, None,
                       [agent |-> a, before |-> _user[s]])
    /\ UNCHANGED <<objects, session, old_global_session, global_session, scopes>>

push_agent(s, a) == Len(prov[a.bundle]) < MaxRecords /\ push_step(s, a)

\* return self._user.pop()
pop_user(s) == IF _user[s] = <<>> THEN _user[s]
               ELSE SubSeq(_user[s], 1, Len(_user[s]) - 1)

pop_exc(s) == IF _user[s] = <<>> THEN "IndexError" ELSE None

\* a variant that also takes the popped agent's delegation edges out of
\* the documents
pop_agent_erasing(s) ==
    /\ s \in objects
    /\ _user' = [_user EXCEPT ![s] = pop_user(s)]
    /\ prov' = IF _user[s] = <<>> THEN prov
               ELSE [d \in Sessions |->
                     SelectSeq(prov[d], LAMBDA r :
                         ~(r.kind = "actedOnBehalfOf" /\ r.delegate = agent(s).ret))]
    /\ last' = Outcome("pop_agent", s, pop_exc(s), agent(s).ret,
                       [depth |-> Len(_user[s])])
    /\ UNCHANGED <<objects, session, old_global_session, global_session, scopes>>

pop_agent(s) ==
    /\ s \in objects
    /\ _user' = [_user EXCEPT ![s] = pop_user(s)]
    /\ last' = Outcome("pop_agent", s, pop_exc(s), agent(s).ret,
                       [depth |-> Len(_user[s])])
    /\ UNCHANGED <<objects, prov, session, old_global_session, global_session,
                   scopes>>

(***************************************************************************)
(* generate_prov(func, pass_sess) and its wrapper.                         *)
(*                                                                         *)
(* Argument values: a DataArray with attrs["provenance"] set to an Entity  *)
(* (named by its identifier), a DataArray without that attribute, a plain  *)
(* value, or a Session passed on as the keyword `sess`.                    *)
(***************************************************************************)
Array(entity) == [type |-> "DataArray", provenance |-> entity]
BareArray == [type |-> "DataArray", provenance |-> Unset]
Plain == [type |-> "int", provenance |-> Unset]
SessValue == [type |-> "Session", provenance |-> Unset]

kw_x == <<"x">>
kw_y == <<"y">>
kw_sess == <<"s", "e", "s", "s">>
kw_args == <<"a", "r", "g", "s">>

\* str(n) for a natural number n
Digit == <<"0", "1", "2", "3", "4", "5", "6", "7", "8", "9">>
RECURSIVE str_int(_)
str_int(n) == IF n < 10 THEN <<Digit[n + 1]>>
              ELSE str_int(n \div 10) \o <<Digit[(n % 10) + 1]>>

\* utilities.positional_parameters(func), for a function declared f(x, *args)
param_names == <<kw_x>>
var_positional == kw_args
num_positional == Len(var_positional)

\* What func does when called: raise, or return a plain number, one
\* DataArray, or a tuple of DataArrays.
FuncResults == {"raise", "number", "DataArray", "tuple"}

\* The calls explored: positional arguments, keyword arguments other than
\* sess, what func does, and the decorator's pass_sess.
Call(args, kwargs, result, pass_sess) ==
    [args |-> args, kwargs |-> kwargs, result |-> result, pass_sess |-> pass_sess]
Calls ==
    {Call(<<Array("E_in")>>, <<>>, r, FALSE) : r \in FuncResults}
    \cup {Call(<<Plain>>, <<>>, "number", FALSE),
          Call(<<>>, <<<<kw_y, Array("E_in")>>>>, "DataArray", FALSE),
          Call(<<Array("E_in")>>, <<<<kw_y, Plain>>>>, "DataArray", FALSE)}

\* line 171: session = kwargs.get("sess", global_session); sess is the
\* keyword's value, Unset when the caller passes none
resolve_session(sess) == IF sess # Unset THEN sess ELSE global_session

\* lines 172-174: the kwargs func receives and the loop of line 194 sees
passed_kwargs(kwargs, sess, pass_sess) ==
    IF sess # Unset /\ pass_sess THEN kwargs \o <<<<kw_sess, SessValue>>>> ELSE kwargs

\* lines 184-187; i counts from 0
argname(i) ==
    IF i < num_positional
    THEN IF i < Len(param_names) THEN [exc |-> None, name |-> param_names[i + 1]]
         ELSE [exc |-> "IndexError", name |-> <<>>]
    ELSE [exc |-> None, name |-> var_positional \o str_int(i - num_positional)]

\* line 181: activity_attrs starts as {prov.PROV_TYPE: func.__name__}
PROV_TYPE == <<"prov:type", "func">>

Attrs(exc, args_prov, id_attrs, activity_attrs) ==
    [exc |-> exc, args_prov |-> args_prov, id_attrs |-> id_attrs,
     activity_attrs |-> activity_attrs]

\* lines 183-193: args_prov is a list, so args_prov[argname] = str(arg)
\* raises TypeError for every argument that is no DataArray
RECURSIVE positional_loop(_, _, _)
positional_loop(args, i, st) ==
    IF i >= Len(args) THEN st
    ELSE IF argname(i).exc # None THEN [st EXCEPT !.exc = argname(i).exc]
    ELSE IF args[i + 1].type = "DataArray"
         THEN IF args[i + 1].provenance = Unset THEN [st EXCEPT !.exc = "KeyError"]
              ELSE positional_loop(args, i + 1,
                       [st EXCEPT !.args_prov = Append(@, args[i + 1].provenance),
                                  !.id_attrs = Append(@, <<argname(i).name,
                                                          args[i + 1].provenance>>)])
         ELSE [st EXCEPT !.exc = "TypeError"]

\* lines 194-200: the test is on `arg`, the last positional argument (not
\* bound when there is none), not on the keyword's value val
RECURSIVE keyword_loop(_, _, _, _)
keyword_loop(kwargs, j, args, st) ==
    IF j > Len(kwargs) THEN st
    ELSE IF args = <<>> THEN [st EXCEPT !.exc = "UnboundLocalError"]
    ELSE IF args[Len(args)].type = "DataArray"
         THEN IF kwargs[j][2].type # "DataArray"
              THEN [st EXCEPT !.exc = "AttributeError: attrs"]
              ELSE IF kwargs[j][2].provenance = Unset
              THEN [st EXCEPT !.exc = "KeyError"]
              ELSE keyword_loop(kwargs, j + 1, args,
                       [st EXCEPT !.args_prov = Append(@, kwargs[j][2].provenance),
                                  !.id_attrs = Append(@, <<kwargs[j][1],
                                                          kwargs[j][2].provenance>>)])
         ELSE [st EXCEPT !.exc = "TypeError"]

classify(args, kwargs) ==
    LET p == positional_loop(args, 0, Attrs(None, <<>>, <<>>, <<PROV_TYPE>>))
    IN  IF p.exc # None THEN p ELSE keyword_loop(kwargs, 1, args, p)

\* session.agent at lines 202 and 210, for the session resolved
session_agent(s) ==
    IF s = None THEN [exc |-> "AttributeError: NoneType.agent", ret |-> None]
    ELSE agent(s)

\* line 202
activity_id(a, end_time, id_attrs) ==
    hash_vals(<<<<kw_agent, a>>, <<kw_date, end_time>>>> \o id_attrs)

\* lines 206 and 215-217
entity_id(activity, id_attrs) ==
    hash_vals(<<<<kw_activity, activity>>, <<kw_position, "0">>, <<kw_name, "r">>>>
              \o id_attrs)

Ran(exc, doc, attached) == [exc |-> exc, doc |-> doc, attached |-> attached]

\* lines 203-225, for session s with current agent a: the activity is
\* created; a tuple has no .name; generated_array is never set
record_outputs(s, a, act, result, c, start_time, end_time) ==
    LET doc == Append(prov[s], activity_record(act, start_time, end_time,
                                               c.activity_attrs))
        e == entity_id(act, c.id_attrs)
    IN  IF result = "tuple" THEN Ran("AttributeError: tuple.name", doc, None)
        ELSE IF result = "DataArray"
        THEN IF e.exc # None THEN Ran(e.exc, doc, None)
             ELSE Ran("ValueError: No DataArray object was produced",
                      doc \o <<entity_record(e.hexdigest),
                               generation(e.hexdigest, act, end_time),
                               attribution(e.hexdigest, a)>>,
                      e.hexdigest)
        ELSE Ran("ValueError: No DataArray object was produced", doc, None)

\* a variant that creates the Activity before it invokes func
run_wrapper_eager(s, call, kwargs, start_time, end_time) ==
    Ran(IF call.result = "raise" THEN "FuncError" ELSE "ValueError: values to unpack",
        IF s = None THEN <<>>
        ELSE Append(prov[s], activity_record(<<>>, start_time, end_time, <<>>)),
        None)

\* lines 171-225: the exception the call raises (None: it returns result),
\* the document of the resolved session afterwards, the Entity attached
run_wrapper(s, call, kwargs, start_time, end_time) ==
    LET unchanged == IF s = None THEN <<>> ELSE prov[s]
        c == classify(call.args, kwargs)
        a == session_agent(s)
        act == activity_id(a.ret, end_time, c.id_attrs)
    IN  IF call.result = "raise" THEN Ran("FuncError", unchanged, None)
        ELSE IF c.exc # None THEN Ran(c.exc, unchanged, None)
        ELSE IF a.exc # None THEN Ran(a.exc, unchanged, None)
        ELSE IF act.exc # None THEN Ran(act.exc, unchanged, None)
        ELSE record_outputs(s, a.ret, act.hexdigest, call.result, c,
                            start_time, end_time)

\* attrs["provenance"] of the first positional argument, None without one
input_entity(args) ==
    IF args # <<>> /\ args[1].provenance # Unset THEN args[1].provenance ELSE None

wrapper(call, sess) ==
    /\ sess \in objects \cup {Unset}
    /\ \E start_time \in Times :
        LET s == resolve_session(sess)
            w == run_wrapper(s, call,
                             passed_kwargs(call.kwargs, sess, call.pass_sess),
                             start_time, start_time + 1)
        IN  /\ prov' = IF s = None THEN prov ELSE [prov EXCEPT ![s] = w.doc]
            /\ last' = Outcome("wrapper", s, w.exc, w.attached,
                               [explicit |-> sess # Unset,
                                result |-> call.result,
                                input |-> input_entity(call.args)])
    /\ UNCHANGED <<objects, _user, session, old_global_session, global_session,
                   scopes>>

Next ==
    \/ \E s \in Sessions : SessionInit(s)
    \/ \E s \in Sessions : begin(s)
    \/ \E s \in Sessions : enter(s)
    \/ SessionExit
    \/ \E s \in Sessions : read_agent(s)
    \/ \E s \in Sessions, a \in Delegates : push_agent(s, a)
    \/ \E s \in Sessions : pop_agent(s)
    \/ \E call \in Calls, sess \in Sessions \cup {Unset} : wrapper(call, sess)

Spec == Init /\ [][Next]_vars

(***************************************************************************)
(* Properly nested scoped activations of distinct Sessions: a Session is   *)
(* entered only while it is not already active.                            *)
(***************************************************************************)
ScopeSessions == {scopes[i].sess : i \in 1..Len(scopes)}

enter_distinct(s) == s \notin ScopeSessions /\ enter(s)

NextNested ==
    \/ \E s \in Sessions : SessionInit(s)
    \/ \E s \in Sessions : begin(s)
    \/ \E s \in Sessions : enter_distinct(s)
    \/ SessionExit
    \/ \E s \in Sessions : read_agent(s)
    \/ \E s \in Sessions, a \in Delegates : push_agent(s, a)
    \/ \E s \in Sessions : pop_agent(s)
    \/ \E call \in Calls, sess \in Sessions \cup {Unset} : wrapper(call, sess)

SpecNested == Init /\ [][NextNested]_vars

(***************************************************************************)
(* The agent stack alone: Sessions are created and agents pushed, popped   *)
(* and read, a delegate being pushed again after it was popped.            *)
(***************************************************************************)
Delegations(doc) == {i \in 1..Len(doc) : doc[i].kind = "actedOnBehalfOf"}

push_agent_again(s, a) ==
    Cardinality(Delegations(prov[a.bundle])) < MaxPushes /\ push_step(s, a)

NextStack ==
    \/ \E s \in Sessions : SessionInit(s)
    \/ \E s \in Sessions : read_agent(s)
    \/ \E s \in Sessions, a \in Delegates : push_agent_again(s, a)
    \/ \E s \in Sessions : pop_agent(s)

SpecStack == Init /\ [][NextStack]_vars

(***************************************************************************)
(* hash_vals alone, called with keyword arguments of names of one, two and *)
(* four characters and values that are integers.  A Python call cannot     *)
(* repeat a keyword, so the names of one call are distinct.                *)
(***************************************************************************)
kw_id == <<"i", "d">>
HashNames == {kw_x, kw_os, kw_id, kw_host}
HashValues == {1, 12}
HashFields == HashNames \X HashValues

HashKwargs ==
    {q \in UNION {[1..n -> HashFields] : n \in 0..MaxFields} :
        \A i, j \in 1..Len(q) : i # j => q[i][1] # q[j][1]}

hash_call(kwargs) ==
    /\ last' = Outcome("hash_vals", None, hash_vals(kwargs).exc,
                       hash_vals(kwargs).hexdigest, kwargs)
    /\ UNCHANGED <<objects, _user, prov, session, old_global_session,
                   global_session, scopes>>

NextHash == \E kwargs \in HashKwargs : hash_call(kwargs)

SpecHash == Init /\ [][NextHash]_vars

(***************************************************************************)
(* Threads.  Each Session is activated once, by a thread of its own, in a  *)
(* `with` block; the threads share the module-level global_session, which  *)
(* no lock guards, and interleave statement by statement.  `scopes` holds  *)
(* the threads' open activations in the order they began, each with the    *)
(* position of its thread: before line 84, or inside the block.            *)
(***************************************************************************)
Frame(s) == scopes[CHOOSE i \in 1..Len(scopes) : scopes[i].sess = s]

at(s, pc) == s \in ScopeSessions /\ Frame(s).pc = pc

\* line 83: self.old_global_session = global_session
thread_save(s) ==
    /\ s \in objects
    /\ old_global_session[s] = Unset
    /\ old_global_session' = [old_global_session EXCEPT ![s] = enter_old(s)]
    /\ scopes' = Append(scopes, [sess |-> s, before |-> global_session,
                                 pc |-> "line 84"])
    /\ last' = Outcome("line 83", s, None, None, None)
    /\ UNCHANGED <<objects, _user, prov, session, global_session>>

\* lines 84-85: global_session = self; return self
thread_set(s) ==
    /\ at(s, "line 84")
    /\ global_session' = s
    /\ scopes' = [i \in 1..Len(scopes) |->
                    IF scopes[i].sess = s THEN [scopes[i] EXCEPT !.pc = "block"]
                    ELSE scopes[i]]
    /\ last' = Outcome("__enter__", s, None, s, None)
    /\ UNCHANGED <<objects, _user, prov, session, old_global_session>>

\* inside the block the thread makes a wrapped call without sess: line 171
\* resolves the session the call will record under
thread_block(s) ==
    /\ at(s, "block")
    /\ last' = Outcome("block", s, None, resolve_session(Unset), None)
    /\ UNCHANGED <<objects, _user, prov, session, old_global_session,
                   global_session, scopes>>

\* lines 89-90; exc_type is None when the thread's block ended normally
thread_exit(s, exc_type) ==
    /\ at(s, "block")
    /\ global_session' = exit_global(s, exc_type)
    /\ scopes' = SelectSeq(scopes, LAMBDA f : f.sess # s)
    /\ last' = Outcome("__exit__", s,
                       IF exit_return(exc_type) THEN None ELSE exc_type,
                       exit_return(exc_type),
                       [exc_type |-> exc_type, before |-> Frame(s).before])
    /\ UNCHANGED <<objects, _user, prov, session, old_global_session>>

NextThreads ==
    \/ \E s \in Sessions : SessionInit(s)
    \/ \E s \in Sessions : thread_save(s)
    \/ \E s \in Sessions : thread_set(s)
    \/ \E s \in Sessions : thread_block(s)
    \/ \E s \in Sessions, exc_type \in {None, "BlockError"} : thread_exit(s, exc_type)

SpecThreads == Init /\ [][NextThreads]_vars

(***************************************************************************)
(* Properties.                                                             *)
(***************************************************************************)
Top(stack) == stack[Len(stack)]
Nodes(doc) == {i \in 1..Len(doc) : doc[i].kind \in {"agent", "activity", "entity"}}

\* C1: after Session creation and any sequence of push_agent and pop_agent
\* the agent stack holds at least one element, and reading the current
\* agent always succeeds.
C1_StackNeverEmpty ==
    /\ \A s \in objects : Len(_user[s]) >= 1
    /\ last.op = "agent" => last.exc = None

\* C2: pop_agent on a stack that holds only the primary Agent fails and
\* leaves the stack unchanged.
C2_PopPrimaryFails ==
    [][(last'.op = "pop_agent" /\ Len(_user[last'.sess]) = 1)
        => (last'.exc # None /\ _user' = _user)]_vars

\* C3: in every Session state, immediately after push_agent(a) the current
\* agent is a; and pop_agent straight after push_agent(a) returns a and
\* leaves the stack as it was before the push.
C3_PushPop ==
    [][/\ last'.op = "push_agent"
          => /\ _user'[last'.sess] # <<>>
             /\ Top(_user'[last'.sess]) = last'.info.agent
       /\ (last.op = "push_agent" /\ last'.op = "pop_agent" /\ last'.sess = last.sess)
          => /\ last'.exc = None
             /\ last'.ret = last.info.agent
             /\ _user'[last'.sess] = last.info.before]_vars

\* C4: with properly nested activations of distinct Sessions, __enter__
\* makes its Session the current one and each __exit__ sets the current
\* session back to the value it had immediately before the matching
\* __enter__.
C4_NestedRestore ==
    [][/\ last'.op = "__enter__" => global_session' = last'.sess
       /\ last'.op = "__exit__" => global_session' = last'.info.before]_vars

\* C4 witness: S1 entered, S2 entered inside it, S2 exited: S1 is current.
C4_Witness ==
    /\ last.op = "__exit__"
    /\ Len(scopes) = 1
    /\ last.sess # scopes[1].sess
    /\ global_session = scopes[1].sess
    /\ last.info.before = scopes[1].sess

\* C5: when the enclosed block fails, __exit__ still restores the current
\* session to its value before the entry, and the failure reaches the
\* caller of the scope.
C5_ExitOnFailure ==
    [][(last'.op = "__exit__" /\ last'.info.exc_type # None)
        => (global_session' = last'.info.before /\ last'.exc = last'.info.exc_type)]_vars

\* C6: when func raises, the wrapper leaves every Document as it was and
\* the failure of func is what the call raises.
C6_FuncFailureWritesNothing ==
    [][(last'.op = "wrapper" /\ last'.info.result = "raise")
        => (prov' = prov /\ last'.exc = "FuncError")]_vars

\* C6 witness: a wrapped call under a Session whose func raised.
C6_Witness ==
    /\ last.op = "wrapper"
    /\ last.info.result = "raise"
    /\ last.sess # None
    /\ prov[last.sess] # <<>>
    /\ last.exc = "FuncError"

\* C7: with an active Session, a wrapped call whose func returns a plain
\* number raises the no-DataArray error of line 223 and adds no node.
C7_NoProvenanceTarget ==
    [][(last'.op = "wrapper" /\ last'.info.result = "number" /\ last'.sess # None)
        => /\ last'.exc = "ValueError: No DataArray object was produced"
           /\ Cardinality(Nodes(prov'[last'.sess]))
                = Cardinality(Nodes(prov[last'.sess]))]_vars

\* C8: with an active Session, a wrapped call on an artifact carrying E_in
\* whose func returns one artifact returns normally with a new Entity
\* attached, and the Document gains an Activity whose input references
\* include E_in and the generation edge from the new Entity to it.
C8_RoundTrip ==
    [][(/\ last'.op = "wrapper"
        /\ last'.sess # None
        /\ last'.info.input = "E_in"
        /\ last'.info.result = "DataArray")
        => /\ last'.exc = None
           /\ last'.ret # None
           /\ \E i, j \in (Len(prov[last'.sess]) + 1)..Len(prov'[last'.sess]) :
                /\ prov'[last'.sess][i].kind = "activity"
                /\ \E k \in 1..Len(prov'[last'.sess][i].attrs) :
                       prov'[last'.sess][i].attrs[k][2] = "E_in"
                /\ prov'[last'.sess][j].kind = "wasGeneratedBy"
                /\ prov'[last'.sess][j].entity = last'.ret
                /\ prov'[last'.sess][j].activity = prov'[last'.sess][i].id]_vars

\* C9: a wrapped call with no current session and no explicit sess raises
\* the error of having no session (here: the AttributeError of reading
\* .agent of None).
C9_NoActiveSession ==
    (last.op = "wrapper" /\ ~last.info.explicit /\ last.sess = None)
        => last.exc = "AttributeError: NoneType.agent"

C11_OneDelegationEdge ==
    [][/\ (/\ last'.op = "push_agent"
           /\ last'.exc = None
           /\ last'.info.agent.bundle = last'.sess)
          => Cardinality({i \in 1..Len(prov'[last'.sess]) :
                 prov'[last'.sess][i]
                   = delegation(last'.info.agent, Top(last'.info.before))}) = 1
       /\ (last'.op = "push_agent" /\ last'.exc # None) => _user' = _user]_vars

\* C12: creating a Session succeeds: the agent stack is exactly the primary
\* Agent, and the Document holds that Agent, a session Activity with a
\* start time and no end time, identified by the hash of its start time
\* and properties, and the association of that Activity with the Agent.
C12_SessionCreated ==
    [][last'.op = "__init__"
        => /\ last'.exc = None
           /\ _user'[last'.sess] = <<PrimaryAgent(last'.sess)>>
           /\ \E i, j, k \in 1..Len(prov'[last'.sess]) :
                /\ prov'[last'.sess][i] = agent_record(PrimaryAgent(last'.sess))
                /\ prov'[last'.sess][j].kind = "activity"
                /\ prov'[last'.sess][j].startTime \in Times
                /\ prov'[last'.sess][j].endTime = None
                /\ prov'[last'.sess][j].id = session'[last'.sess]
                /\ prov'[last'.sess][k]
                     = association(session'[last'.sess], PrimaryAgent(last'.sess))]_vars

\* C13: hash_vals has no error condition: whatever the names and values
\* of its fields, it returns a digest and does not raise.
C13_HasherNeverRaises ==
    last.op = "hash_vals" => last.exc = None

\* the encoding C14 describes: name ":" str(value) "," for each field, in
\* the caller's order
RECURSIVE name_value_encoding(_)
name_value_encoding(kwargs) ==
    IF kwargs = <<>> THEN <<>>
    ELSE Head(kwargs)[1] \o <<":">> \o str_int(Head(kwargs)[2]) \o <<",">>
         \o name_value_encoding(Tail(kwargs))

\* C14: the digest hash_vals returns is that of the concatenation, in the
\* caller's order, of name ":" str(value) "," for each field, and field
\* sequences that differ in a name, a value or the order are hashed from
\* different encodings.
C14_HasherEncoding ==
    (last.op = "hash_vals" /\ last.exc = None)
        => /\ last.ret = name_value_encoding(last.info)
           /\ \A other \in HashKwargs :
                (other # last.info /\ hash_vals(other).exc = None)
                    => hash_vals(other).hexdigest # last.ret

\* the entities a step adds to Document s that it also records as generated
\* (wasGeneratedBy) and as attributed to agent a (wasAttributedTo)
NewEntities(s, a) ==
    {prov'[s][i].id : i \in {n \in (Len(prov[s]) + 1)..Len(prov'[s]) :
        /\ prov'[s][n].kind = "entity"
        /\ \E j, k \in (Len(prov[s]) + 1)..Len(prov'[s]) :
              /\ prov'[s][j].kind = "wasGeneratedBy"
              /\ prov'[s][j].entity = prov'[s][n].id
              /\ prov'[s][k] = attribution(prov'[s][n].id, a)}}

\* C15: when func returns a tuple of artifacts, the wrapped call returns
\* and every artifact has got an Entity of its own: the Document gains at
\* least two new Entities with distinct identifiers, each recorded as
\* generated and as attributed to the current agent.
C15_MultiArtifact ==
    [][(/\ last'.op = "wrapper"
        /\ last'.info.result = "tuple"
        /\ last'.sess # None
        /\ _user[last'.sess] # <<>>)
        => /\ last'.exc = None
           /\ Cardinality(NewEntities(last'.sess, Top(_user[last'.sess]))) >= 2]_vars

C17_TwoThreads ==
    /\ last.op = "block" => last.ret = last.sess
    /\ (scopes = <<>> /\ \A s \in Sessions : old_global_session[s] # Unset)
        => global_session = None

\* C18: also when a Session is entered again while it is already active,
\* each __exit__ sets the current session back to the value it had
\* immediately before the matching __enter__, so that after the last exit
\* the current session is what it was before the first entry.
C18_ReentryRestores ==
    [][last'.op = "__exit__"
        => /\ global_session' = Top(scopes).before
           /\ scopes' = <<>> => global_session' = scopes[1].before]_vars

\* the exceptions raised by the statements that classify the arguments
\* (lines 183-200)
ClassifyErrors ==
    {"TypeError", "UnboundLocalError", "AttributeError: attrs", "IndexError",
     "KeyError"}

\* C19: every positional and keyword argument is classified by its own
\* value, an artifact carrying an Entity as an input reference and any
\* other value as a stringified attribute; classifying the arguments never
\* makes a wrapped call under a Session fail.
C19_Classification ==
    [][(/\ last'.op = "wrapper"
        /\ last'.info.result # "raise"
        /\ last'.sess # None
        /\ _user[last'.sess] # <<>>)
        => last'.exc \notin ClassifyErrors]_vars

\* C20: a Session's Document is append-only: whatever operation runs, each
\* Document keeps every record it held, in place and unaltered; pop_agent
\* takes an agent off the stack and leaves its delegation edge recorded.
C20_AppendOnly ==
    [][\A s \in Sessions :
        /\ Len(prov'[s]) >= Len(prov[s])
        /\ SubSeq(prov'[s], 1, Len(prov[s])) = prov[s]]_vars

\* C20 witness: a delegate was pushed and popped again: it is no longer on
\* the Session's stack, and its delegation edge is still in its Document.
C20_Witness ==
    /\ last.op = "pop_agent"
    /\ last.exc = None
    /\ last.ret \in Delegates
    /\ \A i \in 1..Len(_user[last.sess]) : _user[last.sess][i] # last.ret
    /\ \E i \in Delegations(prov[last.ret.bundle]) :
           prov[last.ret.bundle][i].delegate = last.ret

\* C21: the session is resolved before func is invoked: a wrapped call
\* with no explicit sess and no current session fails without executing
\* func, so it never returns and what it raises is never the failure of
\* func itself.
C21_ResolvedBeforeInvoke ==
    (last.op = "wrapper" /\ ~last.info.explicit /\ last.sess = None)
        => last.exc \notin {None, "FuncError"}

====
